---- MODULE Spec2Model ----
(***************************************************************************)
(* The document normalisation pipeline of src/src/openai_classifier.py     *)
(* (process_document_file, convert_pdf_to_jpeg, encode_image, query_gpt4,  *)
(* classify_file) and the path based convert_pdf_to_jpeg of                *)
(* src/src/openai_image_classifier.py, as a state machine.                 *)
(*                                                                         *)
(* A file name is a sequence of characters.  A stem that never contains a  *)
(* dot is written as one element ("file", "statement"); every other        *)
(* element is one character.                                               *)
(***************************************************************************)
EXTENDS Integers, Sequences, FiniteSets, TLC

\* ------------------------------------------------------------------ bounds
\* The largest number of pages of a PDF input.
MaxPages == 3
\* The number of calls a caller makes one after the other.
MaxInvocations == 2

\* ------------------------------------------------------------ characters
Lowers == << "a", "b", "d", "e", "f", "g", "i", "j", "n", "p", "r", "t", "w", "x", "z",
            "file", "statement" >>
Uppers == << "A", "B", "D", "E", "F", "G", "I", "J", "N", "P", "R", "T", "W", "X", "Z",
            "FILE", "STATEMENT" >>

\* str.lower() on one character
LowerChar(ch) ==
    IF \E i \in 1..Len(Uppers) : Uppers[i] = ch
    THEN Lowers[CHOOSE i \in 1..Len(Uppers) : Uppers[i] = ch]
    ELSE ch

\* str.upper() on one character
UpperChar(ch) ==
    IF \E i \in 1..Len(Lowers) : Lowers[i] = ch
    THEN Uppers[CHOOSE i \in 1..Len(Lowers) : Lowers[i] = ch]
    ELSE ch

\* str.lower()
Lower(s) == [i \in 1..Len(s) |-> LowerChar(s[i])]

\* s.startswith(t, i): t occurs in s at position i
OccursAt(s, t, i) ==
    /\ i + Len(t) - 1 <= Len(s)
    /\ \A k \in 1..Len(t) : s[i + k - 1] = t[k]

\* str.replace(old, new): every non-overlapping occurrence, left to right
RECURSIVE ReplaceFrom(_, _, _, _)
ReplaceFrom(s, old, new, i) ==
    IF i > Len(s) THEN << >>
    ELSE IF OccursAt(s, old, i)
         THEN new \o ReplaceFrom(s, old, new, i + Len(old))
         ELSE << s[i] >> \o ReplaceFrom(s, old, new, i + 1)

Replace(s, old, new) == ReplaceFrom(s, old, new, 1)

\* posixpath.splitext (genericpath._splitext) of a name without "/": the
\* extension starts at the last dot, unless only dots precede that dot.
SplitExtIndex(p) ==
    LET dots == { i \in 1..Len(p) : p[i] = "." }
        last == IF dots = {} THEN 0 ELSE CHOOSE i \in dots : \A j \in dots : j <= i
    IN  IF last > 0 /\ \E k \in 1..(last - 1) : p[k] # "."
        THEN last ELSE 0

SplitExt(p) ==
    LET i == SplitExtIndex(p)
    IN  IF i = 0 THEN << p, << >> >>
        ELSE << SubSeq(p, 1, i - 1), SubSeq(p, i, Len(p)) >>

\* ------------------------------------------------- mimetypes.guess_type
\* MimeTypes.suffix_map (the entries over the model's characters)
SuffixMap(ext) ==
    IF ext = << ".", "t", "g", "z" >> THEN << ".", "t", "a", "r", ".", "g", "z" >>
    ELSE << >>

\* MimeTypes.encodings_map: case sensitive
EncodingsMap(ext) ==
    IF ext = << ".", "g", "z" >> THEN "gzip"
    ELSE IF ext = << ".", "Z" >> THEN "compress"
    ELSE "None"

\* MimeTypes.types_map[strict] (the entries over the model's characters)
TypesMap(ext) ==
    CASE ext = << ".", "j", "p", "g" >>       -> "image/jpeg"
      [] ext = << ".", "j", "p", "e", "g" >>  -> "image/jpeg"
      [] ext = << ".", "j", "p", "e" >>       -> "image/jpeg"
      [] ext = << ".", "p", "n", "g" >>       -> "image/png"
      [] ext = << ".", "w", "e", "b", "p" >>  -> "image/webp"
      [] ext = << ".", "g", "i", "f" >>       -> "image/gif"
      [] ext = << ".", "p", "d", "f" >>       -> "application/pdf"
      [] ext = << ".", "t", "x", "t" >>       -> "text/plain"
      [] ext = << ".", "t", "a", "r" >>       -> "application/x-tar"
      [] OTHER                                -> "None"

\* the suffix_map loop of guess_type: returns the (base, ext) it ends with
RECURSIVE ApplySuffixMap(_)
ApplySuffixMap(be) ==
    IF SuffixMap(Lower(be[2])) # << >>
    THEN ApplySuffixMap(SplitExt(be[1] \o SuffixMap(Lower(be[2]))))
    ELSE be

\* guess_type with the type looked up as written, not in lower case
GuessTypeCaseSensitive(url) ==
    LET be  == ApplySuffixMap(SplitExt(url))
        enc == EncodingsMap(be[2])
        ext == IF enc # "None" THEN SplitExt(be[1])[2] ELSE be[2]
    IN  << TypesMap(ext), enc >>

\* mimetypes.guess_type(url) for a name without a URL scheme: (type, encoding)
GuessType(url) ==
    LET be  == ApplySuffixMap(SplitExt(url))
        enc == EncodingsMap(be[2])
        ext == IF enc # "None" THEN SplitExt(be[1])[2] ELSE be[2]
    IN  << TypesMap(Lower(ext)), enc >>

\* ------------------------------------------------------------- contents
\* Byte contents.  kind "blob": the bytes of a raster image (id tells two
\* apart); "pdf": a parseable PDF with its pages; "empty": b""; "jpeg": a
\* stitched image as stitched_image.save writes it.
EmptyBytes == [kind |-> "empty", id |-> 0, pages |-> << >>, size |-> << 0, 0 >>, pastes |-> << >>]
Blob(n) == [kind |-> "blob", id |-> n, pages |-> << >>, size |-> << 0, 0 >>, pastes |-> << >>]
Pdf(pages) == [kind |-> "pdf", id |-> 0, pages |-> pages, size |-> << 0, 0 >>, pastes |-> << >>]
Jpeg(size, pastes) == [kind |-> "jpeg", id |-> 0, pages |-> << >>, size |-> size, pastes |-> pastes]

\* img.size of the pages a PDF rasterizes to at dpi=200
PageSizes == { [w |-> 1000, h |-> 1400], [w |-> 1000, h |-> 700], [w |-> 800, h |-> 1400] }

SeqsUpTo(S, n) == UNION { [1..k -> S] : k \in 0..n }

PdfContents == { Pdf(ps) : ps \in SeqsUpTo(PageSizes, MaxPages) }

OnePage == << [w |-> 1000, h |-> 1400] >>

\* ----------------------------------------------------------- constants
\* process_document_file(file_storage, output_folder="output_images")
OutputFolder == "output_images"
\* the folder of the local files of create_filestorage_from_path / pdf_path
FilesFolder == "files"
\* the list of the first branch of process_document_file
RasterTypes == { "image/jpeg", "image/png", "image/webp", "image/gif" }
PdfType == "application/pdf"
\* DocumentAnalysis.document_type
DocumentTypes == { "drivers_licence", "bank_statement", "invoice", "unknown file" }

DotPdf == << ".", "p", "d", "f" >>
DotJpg == << ".", "j", "p", "g" >>

\* os.path.join(folder, name) for a relative name
Join(folder, name) == << folder, "/" >> \o name

\* os.path.basename of a path Join built
Basename(path) == SubSeq(path, 3, Len(path))

\* base64.b64encode(bytes).decode("utf-8")
Base64Encode(bytes) == [encoding |-> "base64", data |-> bytes]
NoPayload == [encoding |-> "none", data |-> EmptyBytes]

\* f"data:{mime_type};base64,{base64_image}"
DataUrl(mime, b64) == [scheme |-> "data", media |-> mime, payload |-> b64]

\* exceptions: the class and the message
NoExc == [type |-> "None", msg |-> ""]
UnsupportedError ==
    [type |-> "ValueError",
     msg |-> "Unsupported file type. Supported types: PDF, JPEG, PNG, WEBP, GIF."]
\* widths, heights = zip(*()) with no image
UnpackError ==
    [type |-> "ValueError", msg |-> "not enough values to unpack (expected 2, got 0)"]
\* pdf2image on bytes pdfinfo cannot read
PageCountError == [type |-> "PDFPageCountError", msg |-> "Unable to get page count."]
FileNotFound == [type |-> "FileNotFoundError", msg |-> "File not found"]
ApiError == [type |-> "APIError", msg |-> "request failed"]

\* ------------------------------------------------------------ stitching
\* max(widths)
MaxWidth(images) ==
    CHOOSE w \in { images[i].w : i \in 1..Len(images) } :
        \A i \in 1..Len(images) : images[i].w <= w

\* sum(heights)
RECURSIVE SumHeights(_)
SumHeights(images) ==
    IF images = << >> THEN 0 ELSE Head(images).h + SumHeights(Tail(images))

\* the canvas as wide as the first page
CanvasSizeOfFirstPage(images) == << images[1].w, SumHeights(images) >>

\* (total_width, total_height) of Image.new("RGB", ...)
CanvasSize(images) == << MaxWidth(images), SumHeights(images) >>

\* stitched_image.paste(img, (0, y_offset))
PasteAt(img, y_offset) == [img |-> img, x |-> 0, y |-> y_offset]

\* the offset advanced by the width of the page
NextOffsetByWidth(y_offset, img) == y_offset + img.w

\* y_offset += img.height
NextOffset(y_offset, img) == y_offset + img.h

\* the branches with no else: whatever is not a raster image is converted
BranchWithoutElse(mime) == IF mime \in RasterTypes THEN "raster" ELSE "pdf"

\* the branch of process_document_file for a guessed type
Branch(mime) ==
    IF mime \in RasterTypes THEN "raster"
    ELSE IF mime = PdfType THEN "pdf"
    ELSE "unsupported"

\* the guessed type returned as it is
ReturnedTypeAsGuessed(mime) == mime

\* the media type process_document_file returns next to the path
ReturnedType(mime) == IF mime = PdfType THEN "image/jpeg" ELSE mime

\* output_name = file_name.replace(".pdf", ".jpg")
OutputName(file_name) == Replace(file_name, DotPdf, DotJpg)

\* output_name = os.path.splitext(os.path.basename(pdf_path))[0] + ".jpg"
OutputNameOfPath(pdf_path) == SplitExt(Basename(pdf_path))[1] \o DotJpg

\* --------------------------------------------------------------- inputs
\* the lower-case file names the documents are drawn from
BaseNames ==
    { << "file", ".", "j", "p", "g" >>,
      << "drivers_license", ".", "j", "p", "g" >>,
      << "x", ".", "j", "p", "e", "g" >>,
      << "x", ".", "p", "n", "g" >>,
      << "x", ".", "w", "e", "b", "p" >>,
      << "x", ".", "g", "i", "f" >>,
      << "x", ".", "p", "d", "f" >>,
      << "statement", ".", "p", "d", "f" >>,
      << "random_document", ".", "t", "x", "t" >>,
      << "x" >>,
      << ".", "j", "p", "g" >>,
      << "x", ".", "j", "p", "g", ".", "g", "z" >>,
      << "x", ".", "t", "g", "z" >>,
      << "x", ".", "p", "d", "f", ".", "g", "z" >>,
      << "x", ".", "p", "d", "f", ".", "p", "d", "f" >> }

\* s with the characters at the positions in P in upper case
UpperAt(s, P) == [i \in 1..Len(s) |-> IF i \in P THEN UpperChar(s[i]) ELSE s[i]]

\* the letter-case variants of a name: as is, all upper case, the final
\* extension in upper case, the first letter of the final extension in upper case
Variants(b) ==
    LET e == SplitExtIndex(b)
    IN  { b, UpperAt(b, 1..Len(b)) }
        \cup (IF e = 0 THEN { } ELSE { UpperAt(b, e..Len(b)), UpperAt(b, {e + 1}) })

Filenames == UNION { Variants(b) : b \in BaseNames }

\* the names of the two documents of a run: a letter-case variant of a name
\* and the name itself, or the two names of the end-to-end scenario
NamePairs ==
    UNION { Variants(b) \X { b } : b \in BaseNames }
    \cup { << << "statement", ".", "P", "D", "F" >>,
              << "drivers_license", ".", "j", "p", "g" >> >> }

\* the contents tried with every name
SmallContents == { Blob(1), Pdf(OnePage), Pdf(<< >>) }

\* the documents of the sequential specification
Inputs ==
    { << np[1], c1, np[2], Pdf(OnePage) >> : np \in NamePairs, c1 \in SmallContents }
    \cup { << << "x" >> \o DotPdf, c1, << "x", ".", "P", "D", "F" >>, Pdf(OnePage) >> :
             c1 \in PdfContents }
    \cup { << << "random_document", ".", "t", "x", "t" >>, Blob(1),
              << "x" >> \o DotPdf, c2 >> : c2 \in { Blob(2), Pdf(<< >>) } }

\* the documents of the concurrent specification
ConcNames == { << "file" >> \o DotJpg, << "x" >> \o DotPdf, << "x", ".", "t", "x", "t" >> }
ConcInputs ==
    { << f, c1, g, c2 >> :
        f \in ConcNames, g \in ConcNames,
        c1 \in { Blob(1), Pdf(OnePage), Pdf(<< >>) },
        c2 \in { Blob(2), Pdf(<< [w |-> 800, h |-> 1400] >>) } }

DocIds == { 1, 2 }
Callers == { 1, 2 }
\* the caller of the sequential specification
SeqCallers == { 1 }

\* ---------------------------------------------------------------- state
VARIABLES
    docs,    \* the FileStorage objects: filename, the bytes of the stream, stream at its end
    fs,      \* the files on disk: path -> bytes
    dirs,    \* the folders os.makedirs has made
    call,    \* per caller: the frame of the running call
    log,     \* the requests the external endpoint has received
    done,    \* the frames of the calls that have ended, in order
    ninv     \* the number of calls started

vars == << docs, fs, dirs, call, log, done, ninv >>

\* the frame of a caller that runs nothing
NoCall ==
    [pc |-> "idle", entry |-> "none", inv |-> 0, doc |-> 0,
     file_bytes |-> EmptyBytes, file_name |-> << >>, pdf_path |-> << >>,
     mime_type |-> "None", images |-> << >>, temp |-> { },
     canvas |-> FALSE, total |-> << 0, 0 >>, i |-> 0, y_offset |-> 0, pastes |-> << >>,
     image_path |-> << >>, media_type |-> "None", base64_image |-> NoPayload,
     exc |-> NoExc, result |-> "None", stages |-> << >>, wrote |-> { }]

\* docs[1] wraps a local file (create_filestorage_from_path); docs[2] is an upload
InitOf(inputs) ==
    \E inp \in inputs :
        /\ docs = [d \in DocIds |->
                     IF d = 1 THEN [filename |-> inp[1], bytes |-> inp[2], at_end |-> FALSE]
                     ELSE [filename |-> inp[3], bytes |-> inp[4], at_end |-> FALSE]]
        /\ fs = [p \in { Join(FilesFolder, inp[1]) } |-> inp[2]]
        /\ dirs = { FilesFolder }
        /\ call = [c \in Callers |-> NoCall]
        /\ log = << >>
        /\ done = << >>
        /\ ninv = 0

Init == InitOf(Inputs)
InitConc == InitOf(ConcInputs)

\* open(path, "wb") truncates, write and close put the bytes
WriteFile(files, path, bytes) ==
    [p \in DOMAIN files \cup { path } |-> IF p = path THEN bytes ELSE files[p]]

\* os.remove of the files in paths
RemoveFiles(files, paths) == [p \in DOMAIN files \ paths |-> files[p]]

\* file_storage.read(): the rest of the stream
ReadStream(d) == IF d.at_end THEN EmptyBytes ELSE d.bytes

Raise(c, e, stage) ==
    call' = [call EXCEPT ![c].pc = "raised", ![c].exc = e,
                         ![c].stages = IF stage = "" THEN @ ELSE Append(@, stage)]

\* ------------------------------------------------- openai_classifier.py
\* classify_file(file_storage) -> query_gpt4 -> process_document_file starts,
\* on a document object that no other running call was given
Invoke(c, d) ==
    /\ call[c].pc = "idle"
    /\ \A o \in Callers \ { c } : call[o].doc # d
    /\ ninv < MaxInvocations
    /\ ninv' = ninv + 1
    /\ call' = [call EXCEPT ![c] =
                  [NoCall EXCEPT !.pc = "read", !.entry = "classify_file",
                                 !.inv = ninv + 1, !.doc = d]]
    /\ UNCHANGED << docs, fs, dirs, log, done >>

\* file_bytes = file_storage.read(); file_name = file_storage.filename
ReadFile(c) ==
    /\ call[c].pc = "read"
    /\ call' = [call EXCEPT ![c].pc = "guess",
                            ![c].file_bytes = ReadStream(docs[call[c].doc]),
                            ![c].file_name = docs[call[c].doc].filename]
    /\ docs' = [docs EXCEPT ![call[c].doc].at_end = TRUE]
    /\ UNCHANGED << fs, dirs, log, done, ninv >>

\* mime_type, _ = guess_type(file_name) and the choice of the branch
Resolve(c) ==
    LET mime == GuessType(call[c].file_name)[1]
    IN  /\ call[c].pc = "guess"
        /\ IF Branch(mime) = "unsupported"
           THEN Raise(c, UnsupportedError, "resolve")
           ELSE call' = [call EXCEPT ![c].pc = IF Branch(mime) = "raster"
                                               THEN "open" ELSE "convert",
                                     ![c].mime_type = mime,
                                     ![c].stages = Append(@, "resolve")]
        /\ UNCHANGED << docs, fs, dirs, log, done, ninv >>

\* the raster branch: os.makedirs, open(output_path, "wb")
OpenOutput(c) ==
    LET output_path == Join(OutputFolder, call[c].file_name)
    IN  /\ call[c].pc = "open"
        /\ dirs' = dirs \cup { OutputFolder }
        /\ fs' = WriteFile(fs, output_path, EmptyBytes)
        /\ call' = [call EXCEPT ![c].pc = "write",
                                ![c].image_path = output_path,
                                ![c].wrote = @ \cup { output_path }]
        /\ UNCHANGED << docs, log, done, ninv >>

\* f.write(file_bytes), close, return output_path, mime_type
WriteOutput(c) ==
    /\ call[c].pc = "write"
    /\ fs' = WriteFile(fs, call[c].image_path, call[c].file_bytes)
    /\ call' = [call EXCEPT ![c].pc = "encode",
                            ![c].media_type = ReturnedType(call[c].mime_type)]
    /\ UNCHANGED << docs, dirs, log, done, ninv >>

\* convert_pdf_to_jpeg: os.makedirs, images = convert_from_bytes(file_bytes)
ConvertFromBytes(c) ==
    /\ call[c].pc = "convert"
    /\ dirs' = dirs \cup { OutputFolder }
    /\ IF call[c].file_bytes.kind = "pdf"
       THEN call' = [call EXCEPT ![c].pc = "stitch",
                                 ![c].images = call[c].file_bytes.pages,
                                 ![c].stages = Append(@, "rasterize")]
       ELSE Raise(c, PageCountError, "rasterize")
    /\ UNCHANGED << docs, fs, log, done, ninv >>

\* widths, heights = zip(...); total_width; total_height; Image.new; y_offset = 0
StitchInit(c) ==
    /\ call[c].pc = "stitch"
    /\ IF call[c].images = << >>
       THEN Raise(c, UnpackError, "")
       ELSE call' = [call EXCEPT ![c].pc = "paste",
                                 ![c].canvas = TRUE,
                                 ![c].total = CanvasSize(call[c].images),
                                 ![c].y_offset = 0,
                                 ![c].i = 1]
    /\ UNCHANGED << docs, fs, dirs, log, done, ninv >>

\* one turn of: for img in images: paste(img, (0, y_offset)); y_offset += img.height
Paste(c) ==
    LET img == call[c].images[call[c].i]
    IN  /\ call[c].pc = "paste"
        /\ call' = [call EXCEPT ![c].pastes = Append(@, PasteAt(img, call[c].y_offset)),
                                ![c].y_offset = NextOffset(@, img),
                                ![c].i = @ + 1,
                                ![c].pc = IF call[c].i < Len(call[c].images) THEN "paste"
                                          ELSE IF call[c].entry = "classify_file"
                                               THEN "save" ELSE "path_save"]
        /\ UNCHANGED << docs, fs, dirs, log, done, ninv >>

\* output_name, output_path, stitched_image.save opens the file
SaveOpen(c) ==
    LET output_path == Join(OutputFolder, OutputName(call[c].file_name))
    IN  /\ call[c].pc = "save"
        /\ fs' = WriteFile(fs, output_path, EmptyBytes)
        /\ call' = [call EXCEPT ![c].pc = "save_write",
                                ![c].image_path = output_path,
                                ![c].wrote = @ \cup { output_path }]
        /\ UNCHANGED << docs, dirs, log, done, ninv >>

\* stitched_image.save writes the JPEG; return output_path, "image/jpeg"
SaveWrite(c) ==
    /\ call[c].pc = "save_write"
    /\ fs' = WriteFile(fs, call[c].image_path, Jpeg(call[c].total, call[c].pastes))
    /\ call' = [call EXCEPT ![c].pc = "encode",
                            ![c].media_type = ReturnedType(call[c].mime_type)]
    /\ UNCHANGED << docs, dirs, log, done, ninv >>

\* base64_image = encode_image(image_path)
Encode(c) ==
    /\ call[c].pc = "encode"
    /\ call' = [call EXCEPT ![c].pc = "request",
                            ![c].base64_image = Base64Encode(fs[call[c].image_path]),
                            ![c].stages = Append(@, "encode")]
    /\ UNCHANGED << docs, fs, dirs, log, done, ninv >>

\* client.beta.chat.completions.parse answers with a parsed DocumentAnalysis;
\* classify_file returns its document_type
Request(c) ==
    /\ call[c].pc = "request"
    /\ log' = Append(log, [inv |-> call[c].inv,
                           url |-> DataUrl(call[c].media_type, call[c].base64_image)])
    /\ \E t \in DocumentTypes :
          call' = [call EXCEPT ![c].pc = "returned", ![c].result = t,
                               ![c].stages = Append(@, "endpoint")]
    /\ UNCHANGED << docs, fs, dirs, done, ninv >>

\* client.beta.chat.completions.parse raises
RequestFails(c) ==
    /\ call[c].pc = "request"
    /\ log' = Append(log, [inv |-> call[c].inv,
                           url |-> DataUrl(call[c].media_type, call[c].base64_image)])
    /\ Raise(c, ApiError, "endpoint")
    /\ UNCHANGED << docs, fs, dirs, done, ninv >>

\* the call has returned or raised: its frame ends
Finish(c) ==
    /\ call[c].pc \in { "returned", "raised" }
    /\ done' = Append(done, call[c])
    /\ call' = [call EXCEPT ![c] = NoCall]
    /\ UNCHANGED << docs, fs, dirs, log, ninv >>

\* -------------------------------------------- openai_image_classifier.py
Digits == << "1", "2", "3", "4", "5", "6", "7", "8", "9" >>

\* the file pdf2image writes for page k of a conversion into output_folder
PageFile(n, k) ==
    Join(OutputFolder, << "uuid", Digits[n], "-", Digits[k] >> \o DotJpg)

\* send_pdf_to_gpt4(pdf_path) starts, on the path of the local file of a document
InvokePath(c, d) ==
    /\ call[c].pc = "idle"
    /\ ninv < MaxInvocations
    /\ ninv' = ninv + 1
    /\ call' = [call EXCEPT ![c] =
                  [NoCall EXCEPT !.pc = "path_convert", !.entry = "send_pdf_to_gpt4",
                                 !.inv = ninv + 1, !.doc = d,
                                 !.pdf_path = Join(FilesFolder, docs[d].filename)]]
    /\ UNCHANGED << docs, fs, dirs, log, done >>

\* convert_pdf_to_jpeg(pdf_path): os.path.isfile, os.makedirs, convert_from_path
PathConvert(c) ==
    LET path  == call[c].pdf_path
        pages == fs[path].pages
        files == { PageFile(call[c].inv, k) : k \in 1..Len(pages) }
        page_of(p) == pages[CHOOSE k \in 1..Len(pages) : PageFile(call[c].inv, k) = p]
    IN  /\ call[c].pc = "path_convert"
        /\ IF path \notin DOMAIN fs
           THEN /\ Raise(c, FileNotFound, "")
                /\ UNCHANGED << fs, dirs >>
           ELSE /\ dirs' = dirs \cup { OutputFolder }
                /\ IF fs[path].kind = "pdf"
                   THEN /\ fs' = [p \in DOMAIN fs \cup files |->
                                    IF p \in DOMAIN fs THEN fs[p]
                                    ELSE Jpeg(<< page_of(p).w, page_of(p).h >>, << >>)]
                        /\ call' = [call EXCEPT ![c].pc = "stitch",
                                                ![c].images = pages,
                                                ![c].temp = files,
                                                ![c].stages = Append(@, "rasterize")]
                   ELSE /\ Raise(c, PageCountError, "rasterize")
                        /\ UNCHANGED fs
        /\ UNCHANGED << docs, log, done, ninv >>

\* os.remove of the page files, output_name, stitched_image.save, return;
\* send_pdf_to_gpt4 labels the image "image/jpeg"
PathSave(c) ==
    LET output_path == Join(OutputFolder, OutputNameOfPath(call[c].pdf_path))
    IN  /\ call[c].pc = "path_save"
        /\ fs' = WriteFile(RemoveFiles(fs, call[c].temp), output_path,
                           Jpeg(call[c].total, call[c].pastes))
        /\ call' = [call EXCEPT ![c].pc = "encode",
                                ![c].image_path = output_path,
                                ![c].media_type = "image/jpeg",
                                ![c].wrote = @ \cup { output_path }]
        /\ UNCHANGED << docs, dirs, log, done, ninv >>

\* ------------------------------------------------------- specifications
Step(c) ==
    \/ \E d \in DocIds : Invoke(c, d)
    \/ ReadFile(c)
    \/ Resolve(c)
    \/ OpenOutput(c)
    \/ WriteOutput(c)
    \/ ConvertFromBytes(c)
    \/ StitchInit(c)
    \/ Paste(c)
    \/ SaveOpen(c)
    \/ SaveWrite(c)
    \/ Encode(c)
    \/ Request(c)
    \/ RequestFails(c)
    \/ Finish(c)
    \/ \E d \in DocIds : InvokePath(c, d)
    \/ PathConvert(c)
    \/ PathSave(c)

\* one caller, one call after the other
Next == \E c \in SeqCallers : Step(c)
Spec == Init /\ [][Next]_vars

\* two callers whose calls interleave
NextConc == \E c \in Callers : Step(c)
SpecConc == InitConc /\ [][NextConc]_vars

\* ------------------------------------------------------------ properties
\* the frames of the running calls and of the calls that have ended
Frames == { call[c] : c \in Callers } \cup { done[k] : k \in DOMAIN done }
Ended == { done[k] : k \in DOMAIN done }

\* the final extension of a name, in lower case
FinalExt(name) == Lower(SplitExt(name)[2])

\* tables over the names of the documents (and the name of a frame that has
\* read none), computed once: the final extension, the name in lower case,
\* the type guess_type gives
Names == Filenames \cup { << >> }
FinalExtOf == [f \in Names |-> FinalExt(f)]
LowerOf == [f \in Names |-> Lower(f)]
GuessedOf == [f \in Names |-> GuessType(f)[1]]

\* the extensions of the recognized raster types and their MIME strings
RasterExts ==
    { DotJpg, << ".", "j", "p", "e", "g" >>, << ".", "p", "n", "g" >>,
      << ".", "w", "e", "b", "p" >>, << ".", "g", "i", "f" >> }
RasterMime(ext) ==
    CASE ext = << ".", "p", "n", "g" >>      -> "image/png"
      [] ext = << ".", "w", "e", "b", "p" >> -> "image/webp"
      [] ext = << ".", "g", "i", "f" >>      -> "image/gif"
      [] OTHER                               -> "image/jpeg"

\* process_document_file has decided the type of the frame's file
Decided(r) == r.entry = "classify_file" /\ r.pc \notin { "idle", "read", "guess" }

Stages(r) == { r.stages[k] : k \in DOMAIN r.stages }
IsPrefix(s, t) == Len(s) <= Len(t) /\ SubSeq(t, 1, Len(s)) = s
Sent(r) == { k \in DOMAIN log : log[k].inv = r.inv }

\* the sum of the heights of the first n pages
RECURSIVE HeightsBefore(_, _)
HeightsBefore(images, n) ==
    IF n = 0 THEN 0 ELSE HeightsBefore(images, n - 1) + images[n].h

\* C1: two file names that differ only in letter case and whose extension is a
\* recognized raster type or pdf resolve to the same type, take the same branch
\* (the right one for the extension), return the same media type, and neither
\* is rejected as unsupported.
C1_CaseInsensitive ==
    \A r1 \in Frames : \A r2 \in Frames :
        ( /\ Decided(r1) /\ Decided(r2)
          /\ FinalExtOf[r1.file_name] \in RasterExts \cup { DotPdf }
          /\ LowerOf[r1.file_name] = LowerOf[r2.file_name] )
        => /\ r1.exc # UnsupportedError /\ r2.exc # UnsupportedError
           /\ r1.mime_type = r2.mime_type
           /\ Branch(r1.mime_type) =
                 IF FinalExtOf[r1.file_name] = DotPdf THEN "pdf" ELSE "raster"
           /\ (r1.media_type # "None" /\ r2.media_type # "None")
                 => r1.media_type = r2.media_type

\* two calls on x.pdf and x.Pdf (or another variant) have both returned image/jpeg
C1_Witness ==
    \E r1 \in Ended : \E r2 \in Ended :
        /\ r1.entry = "classify_file" /\ r2.entry = "classify_file"
        /\ r1.file_name # r2.file_name
        /\ LowerOf[r1.file_name] = LowerOf[r2.file_name]
        /\ FinalExtOf[r1.file_name] = DotPdf
        /\ r1.media_type = "image/jpeg" /\ r2.media_type = "image/jpeg"

\* C2: a file name whose extension is neither a recognized raster type nor pdf
\* (or that has no extension) is rejected with the unsupported-type error and
\* no (path, media type) pair is returned.
C2_UnrecognizedRejected ==
    \A r \in Frames :
        (Decided(r) /\ FinalExtOf[r.file_name] \notin RasterExts \cup { DotPdf })
        => /\ r.exc = UnsupportedError
           /\ r.image_path = << >>
           /\ r.media_type = "None"

\* C3: a PDF of N >= 1 pages gives one stitched image, as high as the sum of
\* the page heights and as wide as the widest page; heights 1400, 1400, 700 and
\* widest page 1000 give 1000 x 3500.
C3_StitchedSize ==
    /\ \A r \in Frames :
          r.canvas =>
             /\ Len(r.images) >= 1
             /\ \E k \in 1..Len(r.images) : r.images[k].w = r.total[1]
             /\ \A k \in 1..Len(r.images) : r.images[k].w <= r.total[1]
             /\ r.total[2] = HeightsBefore(r.images, Len(r.images))
             /\ ( /\ [k \in 1..Len(r.images) |-> r.images[k].h] = << 1400, 1400, 700 >>
                  /\ \E k \in 1..Len(r.images) : r.images[k].w = 1000 )
                => r.total = << 1000, 3500 >>
    /\ \A c \in Callers :
          (call[c].canvas /\ call[c].pc \in { "encode", "request", "returned" })
          => /\ call[c].wrote = { call[c].image_path }
             /\ fs[call[c].image_path].kind = "jpeg"
             /\ fs[call[c].image_path].size = call[c].total
             /\ \A p \in call[c].temp : p \notin DOMAIN fs

\* the three-page PDF of the scenario has been stitched and saved
C3_Witness ==
    \E c \in Callers :
        /\ call[c].pc = "encode"
        /\ [k \in 1..Len(call[c].images) |-> call[c].images[k].h] = << 1400, 1400, 700 >>
        /\ fs[call[c].image_path].size = << 1000, 3500 >>

\* C4: every page is pasted at x = 0 and at the sum of the heights of the
\* pages before it, in page order; the interval of page i ends at or above the
\* start of the interval of every later page; after the last paste the running
\* offset is the height of the canvas.
C4_PasteOrder ==
    \A r \in Frames :
        /\ Len(r.pastes) <= Len(r.images)
        /\ \A k \in 1..Len(r.pastes) :
              /\ r.pastes[k].x = 0
              /\ r.pastes[k].img = r.images[k]
              /\ r.pastes[k].y = HeightsBefore(r.images, k - 1)
        /\ \A i \in 1..Len(r.pastes) : \A j \in 1..Len(r.pastes) :
              i < j => r.pastes[i].y + r.pastes[i].img.h <= r.pastes[j].y
        /\ r.canvas => r.y_offset = HeightsBefore(r.images, Len(r.pastes))
        /\ (r.canvas /\ r.pc # "paste")
              => /\ Len(r.pastes) = Len(r.images)
                 /\ r.y_offset = r.total[2]

\* three pages are pasted and the loop has ended
C4_Witness ==
    \E r \in Frames :
        /\ r.canvas /\ r.pc # "paste"
        /\ Len(r.pastes) = 3
        /\ r.pastes[3].y > r.pastes[2].y

\* the bytes convert_pdf_to_jpeg was given
PdfInput(r) == IF r.entry = "classify_file" THEN r.file_bytes ELSE docs[r.doc].bytes

\* C5: a PDF input that is corrupt or has no page makes convert_pdf_to_jpeg
\* fail with an error of another class than the unsupported-type error; no
\* canvas is made, nothing is saved and no path is returned.
C5_RasterizationFailure ==
    \A r \in Frames :
        ("rasterize" \in Stages(r) /\ (PdfInput(r).kind # "pdf" \/ PdfInput(r).pages = << >>))
        => /\ ~ r.canvas
           /\ r.wrote = { }
           /\ r.image_path = << >>
           /\ r.pc # "stitch"
                 => /\ r.pc = "raised"
                    /\ r.exc.type \notin { "None", UnsupportedError.type }

\* C6: query_gpt4 runs resolve, rasterize (PDF only), encode, endpoint in this
\* order; an unsupported type raises at once, with no file written, nothing
\* encoded and no request; a rasterization failure raises with no payload and
\* no request.
C6_StageOrder ==
    \A r \in Frames :
        r.entry = "classify_file" =>
           LET guessed == GuessedOf[r.file_name]
           IN
           /\ IsPrefix(r.stages,
                       IF "rasterize" \in Stages(r)
                       THEN << "resolve", "rasterize", "encode", "endpoint" >>
                       ELSE << "resolve", "encode", "endpoint" >>)
           /\ "rasterize" \in Stages(r) => guessed = PdfType
           /\ ("encode" \in Stages(r) /\ guessed = PdfType) => "rasterize" \in Stages(r)
           /\ (Decided(r) /\ guessed \notin RasterTypes \cup { PdfType })
                 => r.exc = UnsupportedError
           /\ r.exc = UnsupportedError
                 => /\ r.stages = << "resolve" >>
                    /\ r.wrote = { }
                    /\ r.base64_image = NoPayload
                    /\ Sent(r) = { }
           /\ r.exc \in { PageCountError, UnpackError }
                 => /\ r.stages = << "resolve", "rasterize" >>
                    /\ r.wrote = { }
                    /\ r.base64_image = NoPayload
                    /\ Sent(r) = { }
           /\ Sent(r) # { } => (r.base64_image # NoPayload /\ "endpoint" \in Stages(r))
           /\ r.base64_image # NoPayload => r.wrote # { }

\* one call has raised the unsupported-type error and one a rasterization error
C6_Witness ==
    \E r1 \in Ended : \E r2 \in Ended :
        /\ r1.entry = "classify_file" /\ r2.entry = "classify_file"
        /\ r1.exc = UnsupportedError
        /\ r2.exc \in { PageCountError, UnpackError }

\* C7: with concurrent callers, the payload a call encodes and sends is made
\* of its own input: the base64 of the bytes it read for a raster file, of the
\* stitch of its own pages for a PDF.
C7_OwnPayload ==
    \A r \in Frames :
        (r.entry = "classify_file" /\ r.base64_image # NoPayload)
        => /\ r.base64_image =
                 Base64Encode(IF Branch(r.mime_type) = "raster" THEN r.file_bytes
                              ELSE Jpeg(r.total, r.pastes))
           /\ \A k \in Sent(r) : log[k].url.payload = r.base64_image

\* C8: the media type returned and put in the data URL is image/jpeg for a
\* PDF and the MIME string of its extension for a raster file; statement.PDF
\* and drivers_license.jpg are both resolved and both end with image/jpeg.
C8_MediaType ==
    \A r \in Frames :
        r.entry = "classify_file" =>
           /\ r.pc \in { "encode", "request", "returned" } => r.media_type \in RasterTypes
           /\ r.media_type # "None" =>
                 LET ext == FinalExtOf[r.file_name]
                 IN  /\ (ext = DotPdf \/ r.mime_type = PdfType) => r.media_type = "image/jpeg"
                     /\ ext \in RasterExts => r.media_type = RasterMime(ext)
           /\ \A k \in Sent(r) : log[k].url.media = r.media_type
           /\ (Decided(r) /\ r.file_name \in { << "statement", ".", "P", "D", "F" >>,
                                               << "drivers_license" >> \o DotJpg })
                 => /\ r.exc # UnsupportedError
                    /\ r.media_type \in { "None", "image/jpeg" }

\* statement.PDF and drivers_license.jpg have both been sent as image/jpeg
C8_Witness ==
    \E r1 \in Ended : \E r2 \in Ended :
        /\ r1.file_name = << "statement", ".", "P", "D", "F" >>
        /\ r2.file_name = << "drivers_license" >> \o DotJpg
        /\ r1.media_type = "image/jpeg" /\ r2.media_type = "image/jpeg"
        /\ \E k \in Sent(r1) : log[k].url.media = "image/jpeg"
        /\ \E k \in Sent(r2) : log[k].url.media = "image/jpeg"

\* C9: two calls one after the other on the same document object read the
\* same bytes and produce the same payload and media type.
C9_SameOutcomeTwice ==
    \A r1 \in Ended : \A r2 \in Ended :
        (r1.entry = "classify_file" /\ r2.entry = "classify_file" /\ r1.doc = r2.doc)
        => /\ r1.file_bytes = r2.file_bytes
           /\ r1.base64_image = r2.base64_image
           /\ r1.media_type = r2.media_type

\* C10: classify_file returns one of the four labels for every uploaded file
\* (the endpoint answering), and "unknown file" for a file of an unsupported type.
C10_AlwaysALabel ==
    \A r \in Ended :
        (r.entry = "classify_file" /\ r.exc # ApiError)
        => /\ r.result \in DocumentTypes
           /\ Branch(GuessedOf[r.file_name]) = "unsupported" => r.result = "unknown file"

====
